---- MODULE Spec2Model ----
(***************************************************************************)
(* POST /api/text-to-speech/convert: the express-validator chain           *)
(* (textToSpeechDto), validationMiddleware, the controller                 *)
(* (TextToSpeechController.convertTextToSpeech) and the service            *)
(* (TextToSpeechService.convertTextToSpeech), for several requests in      *)
(* flight on one Node process.                                             *)
(*                                                                         *)
(* A text is kept run-length encoded, [ch, len]: len copies of the         *)
(* character ch.  A JSON value of the body field `text` is its JavaScript  *)
(* type together with the characters it carries: the string itself, the    *)
(* decimal digits of a number, the only element of a one-element array.    *)
(***************************************************************************)
EXTENDS Integers, Sequences, FiniteSets, TLC

\* ------------------------------------------------------------------ bounds
\* Number of requests that may be in flight together.
MaxReq == 2

Requests == 1..MaxReq

\* ------------------------------------------------- the payloads of a request
MinTextLength == 1
MaxTextLength == 500

Str(c, n) == [ch |-> IF n = 0 THEN "" ELSE c, len |-> n]

JsValue(t, s) == [type |-> t, ch |-> s.ch, len |-> s.len]

\* The values req.body.text takes: absent, null, a number, strings around
\* both limits of the rule set, and an array holding one string.
Payloads ==
    { JsValue("undefined", Str("", 0)),
      JsValue("null", Str("", 0)),
      JsValue("number", Str("7", 1)),
      JsValue("string", Str("", 0)),
      JsValue("string", Str("a", MinTextLength)),
      JsValue("string", Str("a", MaxTextLength)),
      JsValue("string", Str("a", MaxTextLength + 1)),
      JsValue("array", Str("", 0)) }

\* Identifiers uuidv4() may return.
UUIDs == << "u1", "u2" >>

\* The audio the provider returns for a request: each answer is its own.
audioOf(r) == << "audio", r >>

NoBytes == << "none", 0 >>
PartialBytes == << "partial", 0 >>

\* --------------------------------------------------------- textToSpeechDto
\* express-validator's toString: what a standard validator is run on.
toString(v) ==
    CASE v.type \in {"undefined", "null"} -> Str("", 0)
      [] OTHER -> Str(v.ch, v.len)

isString(v) == v.type = "string"

\* validator.js isLength: min defaults to 0, max to none (-1 here).
isLength(s, min, max) == s.len >= min /\ (max = -1 \/ s.len <= max)

textToSpeechDto ==
    << [validator |-> "isString", min |-> 0, max |-> -1,
        message |-> "Text must be a string"],
       [validator |-> "isLength", min |-> MinTextLength, max |-> -1,
        message |-> "Text must not be empty"],
       [validator |-> "isLength", min |-> 0, max |-> MaxTextLength,
        message |-> "Text must not exceed 500 characters"] >>

\* One item of the chain on the value of the field.
validatorPasses(item, v) ==
    IF item.validator = "isString"
    THEN isString(v)
    ELSE isLength(toString(v), item.min, item.max)

fieldError(item) == [msg |-> item.message, path |-> "text"]

\* A chain that stops at its first failing validator (as with .bail()).
RECURSIVE runChainBail(_, _, _)
runChainBail(chain, v, errs) ==
    IF chain = << >> \/ errs # << >>
    THEN errs
    ELSE runChainBail(Tail(chain), v,
             IF validatorPasses(Head(chain), v)
             THEN errs
             ELSE Append(errs, fieldError(Head(chain))))

\* The chain runs every validator in order and adds an error for each one
\* that fails: no item of textToSpeechDto bails.
RECURSIVE runChain(_, _, _)
runChain(chain, v, errs) ==
    IF chain = << >>
    THEN errs
    ELSE runChain(Tail(chain), v,
             IF validatorPasses(Head(chain), v)
             THEN errs
             ELSE Append(errs, fieldError(Head(chain))))

\* validationResult(req).array()
validationResult(v) == runChain(textToSpeechDto, v, << >>)

\* ------------------------------------------------------------------- state
VARIABLES
    pc,         \* the state of each request in the handler's state machine
    body,       \* req.body.text
    errors,     \* the validation errors collected for the request
    svcCalls,   \* the arguments of each call of the service, in order
    provSt,     \* openai.audio.speech.create: idle, pending, resolved, rejected
    mp3,        \* the audio payload the provider returned
    uuid,       \* what uuidv4() returned to the service
    fileName,   \* the file name the service generated
    writeSt,    \* fs.promises.writeFile: idle, pending, done, failed
    fs,         \* the temp directory: file name -> content
    resCalls,   \* the methods the handler called on res, in order
    dlArgs,     \* the path and the name given to res.download
    res,        \* the response object: statusCode, headersSent
    wire,       \* what was transmitted to the client
    clientGone, \* the client closed the connection
    uncaught    \* requests whose handling raised an exception nobody caught

vars == << pc, body, errors, svcCalls, provSt, mp3, uuid, fileName, writeSt,
           fs, resCalls, dlArgs, res, wire, clientGone, uncaught >>

NoValue == JsValue("undefined", Str("", 0))
NoName == ""
NoDownload == [path |-> << >>, name |-> NoName]

\* path.join(__dirname, '../../../temp', fileName)
TempDir == << "app", "temp" >>
pathJoin(dir, name) == Append(dir, name)

\* A file name that does not come from the identifier.
generateFileNameFixed(u) == "output.mp3"

\* `${uuidv4()}.mp3`
generateFileName(u) == u \o ".mp3"

FileNames == { generateFileName(UUIDs[i]) : i \in 1..Len(UUIDs) }

\* uuidv4() is random: it may return an identifier it returned before, or
\* a new one.  New identifiers are interchangeable, so the first unused one
\* stands for them all.
uuidv4(names) ==
    LET used == { i \in 1..Len(UUIDs) :
                    \E r \in Requests : names[r] = generateFileName(UUIDs[i]) }
        new == (1..Len(UUIDs)) \ used
    IN  { UUIDs[i] : i \in used \cup { j \in new : \A k \in new : j <= k } }

\* A download name that is always the default.
downloadNameDefault(filePath) == "output.mp3"

\* filePath.split('/').pop() || 'output.mp3'
downloadName(filePath) ==
    LET last == filePath[Len(filePath)]
    IN  IF last = "" THEN "output.mp3" ELSE last

\* Response bodies.
ErrorsJson(errs) == [kind |-> "json", field |-> "errors", value |-> errs]
ErrorJson == [kind |-> "json", field |-> "error",
              value |-> "Error converting text to audio"]
ErrorText == [kind |-> "text", field |-> "",
              value |-> "Error generating the audio file"]
FileBody(name, bytes) == [kind |-> "file", field |-> name, value |-> bytes]

Message(status, b, complete) ==
    [status |-> status, body |-> b, complete |-> complete]

\* The process is alive until an exception escapes every handler.
alive == uncaught = {}

Init ==
    /\ pc = [r \in Requests |-> "Idle"]
    /\ body = [r \in Requests |-> NoValue]
    /\ errors = [r \in Requests |-> << >>]
    /\ svcCalls = [r \in Requests |-> << >>]
    /\ provSt = [r \in Requests |-> "idle"]
    /\ mp3 = [r \in Requests |-> NoBytes]
    /\ uuid = [r \in Requests |-> NoName]
    /\ fileName = [r \in Requests |-> NoName]
    /\ writeSt = [r \in Requests |-> "idle"]
    /\ fs = [f \in FileNames |-> NoBytes]
    /\ resCalls = [r \in Requests |-> << >>]
    /\ dlArgs = [r \in Requests |-> NoDownload]
    /\ res = [r \in Requests |-> [statusCode |-> 200, headersSent |-> FALSE]]
    /\ wire = [r \in Requests |-> << >>]
    /\ clientGone = [r \in Requests |-> FALSE]
    /\ uncaught = {}

\* ------------------------------------------------------------ the pipeline
\* express.json() has parsed the body; the request enters the route.
\* Requests are numbered in the order they arrive.
receive(r, v) ==
    /\ alive
    /\ pc[r] = "Idle"
    /\ IF r = 1 THEN TRUE ELSE pc[r - 1] # "Idle"
    /\ pc' = [pc EXCEPT ![r] = "Received"]
    /\ body' = [body EXCEPT ![r] = v]
    /\ UNCHANGED << errors, svcCalls, provSt, mp3, uuid, fileName, writeSt,
                    fs, resCalls, dlArgs, res, wire, clientGone, uncaught >>

\* The chain of textToSpeechDto runs on the request and stores its errors.
runValidation(r) ==
    /\ alive
    /\ pc[r] = "Received"
    /\ pc' = [pc EXCEPT ![r] = "Validating"]
    /\ errors' = [errors EXCEPT ![r] = validationResult(body[r])]
    /\ UNCHANGED << body, svcCalls, provSt, mp3, uuid, fileName, writeSt, fs,
                    resCalls, dlArgs, res, wire, clientGone, uncaught >>

\* res.status(code).json(b) or res.status(code).send(b), headers not yet sent.
respond(r, code, method, b) ==
    /\ resCalls' = [resCalls EXCEPT ![r] = @ \o << "status", method >>]
    /\ res' = [res EXCEPT ![r] = [statusCode |-> code, headersSent |-> TRUE]]
    /\ wire' = [wire EXCEPT ![r] = Append(@, Message(code, b, TRUE))]

\* The controller with the text cut one character short of the limit
\* before it is handed to the service.
controllerStartSliced(r) ==
    /\ pc' = [pc EXCEPT ![r] = "Synthesizing"]
    /\ svcCalls' = [svcCalls EXCEPT ![r] = Append(@,
           [body[r] EXCEPT !.len = IF @ >= MaxTextLength
                                   THEN MaxTextLength - 1 ELSE @])]
    /\ provSt' = [provSt EXCEPT ![r] = "pending"]
    /\ UNCHANGED << resCalls, res, wire >>

\* The controller without `await` on the service: filePath is a promise,
\* filePath.split throws and the catch block answers while the provider
\* call is still pending.
controllerStartNoAwait(r) ==
    /\ pc' = [pc EXCEPT ![r] = "Failed"]
    /\ svcCalls' = [svcCalls EXCEPT ![r] = Append(@, body[r])]
    /\ provSt' = [provSt EXCEPT ![r] = "pending"]
    /\ respond(r, 500, "json", ErrorJson)

\* The controller up to its first await: the service is called with
\* req.body.text and calls the provider.
controllerStart(r) ==
    /\ pc' = [pc EXCEPT ![r] = "Synthesizing"]
    /\ svcCalls' = [svcCalls EXCEPT ![r] = Append(@, body[r])]
    /\ provSt' = [provSt EXCEPT ![r] = "pending"]
    /\ UNCHANGED << resCalls, res, wire >>

\* A catch block that answers as the download callback does.
controllerCatchText(r) ==
    /\ pc' = [pc EXCEPT ![r] = "Failed"]
    /\ respond(r, 500, "send", ErrorText)

\* The catch block of the controller.
controllerCatch(r) ==
    /\ pc' = [pc EXCEPT ![r] = "Failed"]
    /\ respond(r, 500, "json", ErrorJson)

\* The middleware without `return` before res.status(400): next() runs too.
validationMiddlewareNoReturn(r) ==
    /\ alive
    /\ pc[r] = "Validating"
    /\ pc' = [pc EXCEPT ![r] = "Synthesizing"]
    /\ svcCalls' = [svcCalls EXCEPT ![r] = Append(@, body[r])]
    /\ provSt' = [provSt EXCEPT ![r] = "pending"]
    /\ IF errors[r] # << >>
       THEN respond(r, 400, "json", ErrorsJson(errors[r]))
       ELSE UNCHANGED << resCalls, res, wire >>
    /\ UNCHANGED << body, errors, mp3, uuid, fileName, writeSt, fs, dlArgs,
                    clientGone, uncaught >>

\* validationMiddleware, and on next() the controller.
validationMiddleware(r) ==
    /\ alive
    /\ pc[r] = "Validating"
    /\ IF errors[r] # << >>
       THEN /\ pc' = [pc EXCEPT ![r] = "Rejected"]
            /\ respond(r, 400, "json", ErrorsJson(errors[r]))
            /\ UNCHANGED << svcCalls, provSt >>
       ELSE controllerStart(r)
    /\ UNCHANGED << body, errors, mp3, uuid, fileName, writeSt, fs, dlArgs,
                    clientGone, uncaught >>

\* openai.audio.speech.create resolves with the audio; the service then
\* names the file after uuidv4() and reads the response body.
speechCreateResolve(r, u) ==
    /\ alive
    /\ pc[r] = "Synthesizing"
    /\ provSt[r] = "pending"
    /\ provSt' = [provSt EXCEPT ![r] = "resolved"]
    /\ mp3' = [mp3 EXCEPT ![r] = audioOf(r)]
    /\ uuid' = [uuid EXCEPT ![r] = u]
    /\ fileName' = [fileName EXCEPT ![r] = generateFileName(u)]
    /\ UNCHANGED << pc, body, errors, svcCalls, writeSt, fs, resCalls, dlArgs,
                    res, wire, clientGone, uncaught >>

\* openai.audio.speech.create rejects: the service throws into the
\* controller's catch.
speechCreateReject(r) ==
    /\ alive
    /\ pc[r] = "Synthesizing"
    /\ provSt[r] = "pending"
    /\ provSt' = [provSt EXCEPT ![r] = "rejected"]
    /\ controllerCatch(r)
    /\ UNCHANGED << body, errors, svcCalls, mp3, uuid, fileName, writeSt, fs,
                    dlArgs, clientGone, uncaught >>

\* mp3.arrayBuffer() resolves: fs.promises.writeFile(filePath, buffer) starts.
arrayBufferResolve(r) ==
    /\ alive
    /\ pc[r] = "Synthesizing"
    /\ provSt[r] = "resolved"
    /\ writeSt[r] = "idle"
    /\ writeSt' = [writeSt EXCEPT ![r] = "pending"]
    /\ UNCHANGED << pc, body, errors, svcCalls, provSt, mp3, uuid, fileName,
                    fs, resCalls, dlArgs, res, wire, clientGone, uncaught >>

\* mp3.arrayBuffer() rejects: no write is started.
arrayBufferReject(r) ==
    /\ alive
    /\ pc[r] = "Synthesizing"
    /\ provSt[r] = "resolved"
    /\ writeSt[r] = "idle"
    /\ controllerCatch(r)
    /\ UNCHANGED << body, errors, svcCalls, provSt, mp3, uuid, fileName,
                    writeSt, fs, dlArgs, clientGone, uncaught >>

\* res.download(filePath, fileName, callback)
download(r, filePath) ==
    /\ pc' = [pc EXCEPT ![r] = "Sending"]
    /\ resCalls' = [resCalls EXCEPT ![r] = Append(@, "download")]
    /\ dlArgs' = [dlArgs EXCEPT ![r] =
                     [path |-> filePath, name |-> downloadName(filePath)]]
    /\ UNCHANGED << res, wire >>

\* writeFile resolves with the file written (flag 'w': created or
\* truncated); the service returns filePath and the controller sends it.
writeFileResolve(r) ==
    /\ alive
    /\ pc[r] = "Synthesizing"
    /\ writeSt[r] = "pending"
    /\ writeSt' = [writeSt EXCEPT ![r] = "done"]
    /\ fs' = [fs EXCEPT ![fileName[r]] = mp3[r]]
    /\ download(r, pathJoin(TempDir, fileName[r]))
    /\ UNCHANGED << body, errors, svcCalls, provSt, mp3, uuid, fileName,
                    clientGone, uncaught >>

\* writeFile rejects: at open (no file is touched) or while writing (the
\* file was opened with flag 'w' and holds part of the data).
writeFileReject(r, opened) ==
    /\ alive
    /\ pc[r] = "Synthesizing"
    /\ writeSt[r] = "pending"
    /\ writeSt' = [writeSt EXCEPT ![r] = "failed"]
    /\ fs' = IF opened THEN [fs EXCEPT ![fileName[r]] = PartialBytes] ELSE fs
    /\ controllerCatch(r)
    /\ UNCHANGED << body, errors, svcCalls, provSt, mp3, uuid, fileName,
                    dlArgs, clientGone, uncaught >>

\* The file a path names in the temp directory.
fileOf(filePath) == filePath[Len(filePath)]

\* The send with the file deleted once it is sent (fs.unlinkSync(filePath)
\* in the callback).
downloadCompleteUnlink(r) ==
    /\ alive
    /\ pc[r] = "Sending"
    /\ ~clientGone[r]
    /\ fs[fileOf(dlArgs[r].path)] # NoBytes
    /\ pc' = [pc EXCEPT ![r] = "Delivered"]
    /\ res' = [res EXCEPT ![r].headersSent = TRUE]
    /\ wire' = [wire EXCEPT ![r] = Append(@,
                    Message(200, FileBody(dlArgs[r].name,
                                          fs[fileOf(dlArgs[r].path)]), TRUE))]
    /\ fs' = [fs EXCEPT ![fileOf(dlArgs[r].path)] = NoBytes]
    /\ UNCHANGED << body, errors, svcCalls, provSt, mp3, uuid, fileName,
                    writeSt, resCalls, dlArgs, clientGone, uncaught >>

\* The file is streamed to the end; the callback runs without an error.
downloadComplete(r) ==
    /\ alive
    /\ pc[r] = "Sending"
    /\ ~clientGone[r]
    /\ fs[fileOf(dlArgs[r].path)] # NoBytes
    /\ pc' = [pc EXCEPT ![r] = "Delivered"]
    /\ res' = [res EXCEPT ![r].headersSent = TRUE]
    /\ wire' = [wire EXCEPT ![r] = Append(@,
                    Message(200, FileBody(dlArgs[r].name,
                                          fs[fileOf(dlArgs[r].path)]), TRUE))]
    /\ UNCHANGED << body, errors, svcCalls, provSt, mp3, uuid, fileName,
                    writeSt, fs, resCalls, dlArgs, clientGone, uncaught >>

\* A callback that answers a failed send with the catch block's JSON body.
downloadCallbackErrorJson(r, started) ==
    /\ pc' = [pc EXCEPT ![r] = "SendFailed"]
    /\ IF ~started
       THEN /\ respond(r, 500, "json", ErrorJson)
            /\ UNCHANGED uncaught
       ELSE /\ resCalls' = [resCalls EXCEPT ![r] = @ \o << "status", "json" >>]
            /\ res' = [res EXCEPT ![r] =
                          [statusCode |-> 500, headersSent |-> TRUE]]
            /\ wire' = [wire EXCEPT ![r] = Append(@,
                            Message(200, FileBody(dlArgs[r].name,
                                                  PartialBytes), FALSE))]
            /\ uncaught' = uncaught \cup {r}

\* The callback of res.download with an error.  Before any header was
\* written, res.status(500).send(text) is the response.  After the headers
\* (and part of the file) went out, res.status(500) only changes the field
\* and res.send throws ERR_HTTP_HEADERS_SENT; the callback runs from an
\* event handler, outside the try/catch of the controller.
downloadCallbackError(r, started) ==
    /\ pc' = [pc EXCEPT ![r] = "SendFailed"]
    /\ IF ~started
       THEN /\ respond(r, 500, "send", ErrorText)
            /\ UNCHANGED uncaught
       ELSE /\ resCalls' = [resCalls EXCEPT ![r] = @ \o << "status", "send" >>]
            /\ res' = [res EXCEPT ![r] =
                          [statusCode |-> 500, headersSent |-> TRUE]]
            /\ wire' = [wire EXCEPT ![r] = Append(@,
                            Message(200, FileBody(dlArgs[r].name,
                                                  PartialBytes), FALSE))]
            /\ uncaught' = uncaught \cup {r}

\* The send fails: the file cannot be read, or the client is gone.
downloadError(r, started) ==
    /\ alive
    /\ pc[r] = "Sending"
    /\ downloadCallbackError(r, started)
    /\ UNCHANGED << body, errors, svcCalls, provSt, mp3, uuid, fileName,
                    writeSt, fs, dlArgs, clientGone >>

\* A disconnect wired to an abort signal: a pending provider call is
\* cancelled and the catch block answers.
clientDisconnectAborts(r) ==
    /\ alive
    /\ pc[r] \in {"Synthesizing", "Sending"}
    /\ ~clientGone[r]
    /\ clientGone' = [clientGone EXCEPT ![r] = TRUE]
    /\ IF provSt[r] = "pending"
       THEN /\ provSt' = [provSt EXCEPT ![r] = "rejected"]
            /\ controllerCatch(r)
       ELSE UNCHANGED << pc, provSt, resCalls, res, wire >>
    /\ UNCHANGED << body, errors, svcCalls, mp3, uuid, fileName, writeSt, fs,
                    dlArgs, uncaught >>

\* The client closes the connection while its request is being handled.
clientDisconnect(r) ==
    /\ alive
    /\ pc[r] \in {"Synthesizing", "Sending"}
    /\ ~clientGone[r]
    /\ clientGone' = [clientGone EXCEPT ![r] = TRUE]
    /\ UNCHANGED << pc, body, errors, svcCalls, provSt, mp3, uuid, fileName,
                    writeSt, fs, resCalls, dlArgs, res, wire, uncaught >>

Next ==
    \/ \E r \in Requests, v \in Payloads : receive(r, v)
    \/ \E r \in Requests : runValidation(r)
    \/ \E r \in Requests : validationMiddleware(r)
    \/ \E r \in Requests : \E u \in uuidv4(fileName) :
           speechCreateResolve(r, u)
    \/ \E r \in Requests : speechCreateReject(r)
    \/ \E r \in Requests : arrayBufferResolve(r)
    \/ \E r \in Requests : arrayBufferReject(r)
    \/ \E r \in Requests : writeFileResolve(r)
    \/ \E r \in Requests, opened \in BOOLEAN : writeFileReject(r, opened)
    \/ \E r \in Requests : downloadComplete(r)
    \/ \E r \in Requests, started \in BOOLEAN : downloadError(r, started)
    \/ \E r \in Requests : clientDisconnect(r)

Spec == Init /\ [][Next]_vars

\* ------------------------------------------------------------------ claims
Range(q) == { q[i] : i \in 1..Len(q) }

Arrived == { r \in Requests : pc[r] # "Idle" }

Terminal == {"Rejected", "Failed", "SendFailed", "Delivered"}

\* Past validation: the states only the controller leads to.
Handled == {"Synthesizing", "Failed", "Sending", "SendFailed", "Delivered"}

\* A text of 1 to 500 characters.
ValidText(v) == v.type = "string" /\ 1 <= v.len /\ v.len <= 500

\* C1: a request whose text is missing, not a string, empty or longer than
\* 500 characters never reaches the service: it is in Received or
\* Validating, or Rejected with one complete 400 response listing its
\* errors; so a request in Synthesizing has a text of 1 to 500 characters.
C1_InvalidNeverSynthesized ==
    \A r \in Arrived :
        ~ValidText(body[r]) =>
            /\ pc[r] \in {"Received", "Validating", "Rejected"}
            /\ svcCalls[r] = << >>
            /\ provSt[r] = "idle"
            /\ pc[r] = "Rejected" =>
                   /\ Len(wire[r]) = 1
                   /\ wire[r][1].status = 400
                   /\ wire[r][1].complete
                   /\ wire[r][1].body.field = "errors"
                   /\ wire[r][1].body.value # << >>

\* A text of 501 characters was rejected while another request, with a
\* text of 500 characters, is being synthesized.
C1_Witness ==
    \E r, q \in Requests :
        /\ body[r].type = "string" /\ body[r].len = 501
        /\ pc[r] = "Rejected"
        /\ body[q].len = 500
        /\ pc[q] = "Synthesizing"

\* C2: for a text of 1 to 500 characters the service is called once, and
\* never a second time, with exactly the text of the body: the call is made
\* as the request leaves validation, which never rejects such a text.
C2_ServiceCalledOnceWithText ==
    \A r \in Arrived :
        ValidText(body[r]) =>
            /\ pc[r] # "Rejected"
            /\ Len(svcCalls[r]) <= 1
            /\ pc[r] \in Handled => svcCalls[r] = << body[r] >>

\* A request with a text of 500 characters was delivered.
C2_Witness ==
    \E r \in Requests :
        /\ body[r].len = 500
        /\ pc[r] = "Delivered"
        /\ Len(svcCalls[r]) = 1

\* C3: when the provider call rejects, the body cannot be read or the file
\* write rejects, the request is Failed, its response is exactly status 500
\* with the JSON body {"error": "Error converting text to audio"}, and
\* res.download was never called for it.
C3_DelegateFailureIs500Json ==
    \A r \in Requests :
        /\ (provSt[r] = "rejected" \/ writeSt[r] = "failed") => pc[r] = "Failed"
        /\ pc[r] = "Failed" =>
               /\ wire[r] = << [status |-> 500,
                                body |-> [kind |-> "json", field |-> "error",
                                          value |-> "Error converting text to audio"],
                                complete |-> TRUE] >>
               /\ resCalls[r] = << "status", "json" >>
               /\ "download" \notin Range(resCalls[r])
               /\ dlArgs[r] = NoDownload

\* One request failed at the provider and another at the file write.
C3_Witness ==
    \E r, q \in Requests :
        /\ provSt[r] = "rejected" /\ pc[r] = "Failed"
        /\ writeSt[q] = "failed" /\ pc[q] = "Failed"

\* C4: in every terminal state the client has received exactly one complete
\* response, a whole file or a whole error body, along the path
\* Rejected(400) | Failed(500) | SendFailed(500) | Delivered(200); and the
\* handler wrote no response once one had started (after res.download, a
\* second writer ran only if nothing of the file had gone out).
C4_OneCompleteResponse ==
    \A r \in Requests :
        pc[r] \in Terminal =>
            /\ Len(wire[r]) = 1
            /\ wire[r][1].complete
            /\ wire[r][1].status =
                   (CASE pc[r] = "Rejected" -> 400
                      [] pc[r] = "Delivered" -> 200
                      [] OTHER -> 500)
            /\ wire[r][1].body.kind = "file" <=> pc[r] = "Delivered"
            /\ wire[r][1].status = res[r].statusCode

\* C5: no failure of a request escapes the handler: whatever fails, no
\* exception is left uncaught.
C5_NothingEscapes == uncaught = {}

\* C6 as stated: a failed send is answered like a failed synthesis, with
\* status 500 and the JSON body {"error": "Error converting text to audio"}.
C6_SendFailureIsErrorJson ==
    \A r \in Requests :
        pc[r] = "SendFailed" =>
            wire[r] = << [status |-> 500,
                          body |-> [kind |-> "json", field |-> "error",
                                    value |-> "Error converting text to audio"],
                          complete |-> TRUE] >>

\* C6, amended: on a failed send the callback calls
\* res.status(500).send('Error generating the audio file').  If nothing of
\* the file had gone out, the response is status 500 with that plain text
\* (not the JSON body of a synthesis failure); if the headers had gone out,
\* the client keeps the 200 headers and a part of the file, no error body
\* reaches it and the send throws.
C6_SendFailureIsErrorText ==
    \A r \in Requests :
        pc[r] = "SendFailed" =>
            /\ resCalls[r] = << "download", "status", "send" >>
            /\ res[r].statusCode = 500
            /\ \/ /\ r \notin uncaught
                  /\ wire[r] = << [status |-> 500,
                                   body |-> [kind |-> "text", field |-> "",
                                             value |-> "Error generating the audio file"],
                                   complete |-> TRUE] >>
               \/ /\ r \in uncaught
                  /\ Len(wire[r]) = 1
                  /\ wire[r][1].status = 200
                  /\ wire[r][1].body.kind = "file"
                  /\ ~wire[r][1].complete

\* A send failed before anything was written, after a successful synthesis.
C6_Witness ==
    \E r \in Requests :
        /\ pc[r] = "SendFailed"
        /\ writeSt[r] = "done"
        /\ r \notin uncaught
        /\ wire[r][1].status = 500

\* The length of the text a value carries: none when the field is absent
\* or null.
TextLen(v) == IF v.type \in {"undefined", "null"} THEN 0 ELSE v.len

\* The messages of the rules a value violates, in the order of the rule set
\* {text is a string, length >= 1, length <= 500}.
ViolatedRules(v) ==
    SelectSeq(<< "Text must be a string", "Text must not be empty",
                 "Text must not exceed 500 characters" >>,
              LAMBDA m :
                  \/ m = "Text must be a string" /\ v.type # "string"
                  \/ m = "Text must not be empty" /\ TextLen(v) < 1
                  \/ m = "Text must not exceed 500 characters"
                         /\ TextLen(v) > 500)

C8_StepsOrdered ==
    \A r \in Requests :
        /\ writeSt[r] # "idle" => provSt[r] = "resolved"
        /\ (resCalls[r] # << >> \/ wire[r] # << >>) =>
               provSt[r] # "pending" /\ writeSt[r] # "pending"
        /\ (dlArgs[r] # NoDownload \/ pc[r] \in {"Sending", "SendFailed", "Delivered"})
               => writeSt[r] = "done"
        /\ pc[r] = "Failed" => provSt[r] = "rejected" \/ writeSt[r] \in {"idle", "failed"}

\* One request is being sent, its write done, while the write of another
\* is pending and nothing was answered to it.
C8_Witness ==
    \E r, q \in Requests :
        /\ pc[r] = "Sending" /\ writeSt[r] = "done"
        /\ writeSt[q] = "pending" /\ resCalls[q] = << >>

Files == { f \in FileNames : fs[f] # NoBytes }

LastSegment(path) == path[Len(path)]

ServiceProceeds(r) ==
    \/ \E u \in uuidv4(fileName) : speechCreateResolve(r, u)
    \/ arrayBufferResolve(r)
    \/ writeFileResolve(r)

\* C12: a disconnect during Synthesizing cancels nothing.  The step in which
\* the client goes changes nothing of the request but that; afterwards the
\* provider call, the body read and the file write can each still succeed
\* (while the process lives), a write that ends well creates the file with
\* the audio and passes the request on to Sending, and the request fails
\* in Synthesizing only by a failure of its own provider call or write.  The
\* disconnect shows in Sending only: a request whose client is gone leaves
\* Sending for SendFailed and is never Delivered.
C12_DisconnectCancelsNothing ==
    /\ [](\A r \in Requests :
             /\ (clientGone[r] /\ pc[r] = "Synthesizing" /\ alive)
                    => ENABLED ServiceProceeds(r)
             /\ pc[r] = "Delivered" => ~clientGone[r])
    /\ [][\A r \in Requests :
             /\ (~clientGone[r] /\ clientGone'[r]) =>
                    /\ pc'[r] = pc[r]
                    /\ provSt'[r] = provSt[r]
                    /\ writeSt'[r] = writeSt[r]
                    /\ fs' = fs
                    /\ resCalls'[r] = resCalls[r]
                    /\ wire'[r] = wire[r]
             /\ (clientGone[r] /\ writeSt[r] = "pending" /\ writeSt'[r] = "done") =>
                    /\ fs'[fileName[r]] = mp3[r]
                    /\ pc'[r] = "Sending"
             /\ (clientGone[r] /\ pc[r] = "Synthesizing" /\ pc'[r] # pc[r]) =>
                    \/ pc'[r] = "Sending"
                    \/ /\ pc'[r] = "Failed"
                       /\ \/ provSt'[r] = "rejected"
                          \/ writeSt'[r] = "failed"
                          \/ provSt[r] = "resolved" /\ writeSt[r] = "idle"
             /\ (clientGone[r] /\ pc[r] = "Sending" /\ pc'[r] # pc[r]) =>
                    pc'[r] = "SendFailed"
         ]_vars

\* The client of a request went while its provider call was pending; the
\* call was answered all the same, and the file write is now pending and
\* can end well.
C12_Witness ==
    \E r \in Requests :
        /\ clientGone[r]
        /\ pc[r] = "Synthesizing"
        /\ provSt[r] = "resolved"
        /\ writeSt[r] = "pending"
        /\ ENABLED writeFileResolve(r)

\* Some step of the handling of request r.
RequestStep(r) ==
    \/ runValidation(r)
    \/ validationMiddleware(r)
    \/ \E u \in uuidv4(fileName) : speechCreateResolve(r, u)
    \/ speechCreateReject(r)
    \/ arrayBufferResolve(r)
    \/ arrayBufferReject(r)
    \/ writeFileResolve(r)
    \/ \E opened \in BOOLEAN : writeFileReject(r, opened)
    \/ downloadComplete(r)
    \/ \E started \in BOOLEAN : downloadError(r, started)

InFlight == {"Received", "Validating", "Synthesizing", "Sending"}

\* C13: requests do not interfere.  Whatever the other requests did, a
\* request in flight can still take the next step of its own handling, and
\* the response of a finished request is the one its own text and the
\* outcomes of its own provider call, write and send give: the 400 with its
\* errors, the 500 of its failure, or its own file with its own audio.
C13_NoInterference ==
    \A r \in Requests :
        /\ pc[r] \in InFlight => ENABLED RequestStep(r)
        /\ pc[r] = "Rejected" =>
               wire[r] = << Message(400, ErrorsJson(validationResult(body[r])), TRUE) >>
        /\ pc[r] = "Failed" => wire[r] = << Message(500, ErrorJson, TRUE) >>
        /\ pc[r] = "Delivered" =>
               wire[r] = << Message(200, FileBody(fileName[r], mp3[r]), TRUE) >>

====
